---- MODULE Spec2Model ----
(***************************************************************************)
(* Model of the ARGO ingestion pipeline of data_ingestion/services.py and  *)
(* of the relational store declared in data_ingestion/models.py.           *)
(*                                                                         *)
(* services.py imports the profile model under the name ArgoProfileData;   *)
(* models.py declares it as ArgoProfile.  The model takes the columns and  *)
(* constraints of ArgoProfile as the schema of the profile table.         *)
(***************************************************************************)
EXTENDS Integers, Sequences, FiniteSets, TLC

VARIABLES
    db,     \* the committed store: [profiles, measurements], two append-only tables
    wk,     \* per worker: position and locals of its ingestion call
    hist,   \* per worker: the calls it has completed (history variable)
    pure    \* a function of the pipeline applied on its own: argument and result

vars == <<db, wk, hist, pure>>

(***************************************************************************)
(* Bounds of the model.                                                    *)
(***************************************************************************)
MaxRuns == 2        \* calls started in one behaviour of Spec, over all workers
MaxCoordRuns == 1   \* calls started in one behaviour of SpecCoord
MaxSourceRuns == 2  \* calls started in one behaviour of SpecSource
MaxCrawlRuns == 2   \* calls started in one behaviour of SpecCrawl
MaxLimit == 4       \* the largest limit given to recursive_nc_files in SpecPure
MaxDigits == 7      \* base-1000 digits of the JULD values decoded in SpecPure

Workers == {"w1", "w2"}

(***************************************************************************)
(* Value encodings.  Floats are modelled by integers; np.nan and None are  *)
(* integers outside the range of every value of the catalogue.             *)
(***************************************************************************)
NaN == -1000001
NoneV == -1000002
CycleSentinel == -999
NoLimit == -1

(***************************************************************************)
(* Wide values.  JULD is a float64 whose magnitude decides how it is read  *)
(* (up to 1e17 and beyond), so it is modelled exactly: a sign and the      *)
(* digits of the magnitude in base 1000, most significant first, without   *)
(* leading zeros.  NaNW is np.nan as a wide value.                         *)
(***************************************************************************)
NaNW == [neg |-> FALSE, mag |-> <<>>]

\* the wide value of a natural number below 10^9
Wide(n) ==
    [neg |-> FALSE,
     mag |-> IF n >= 1000000 THEN <<n \div 1000000, (n \div 1000) % 1000, n % 1000>>
             ELSE IF n >= 1000 THEN <<n \div 1000, n % 1000>>
             ELSE <<n>>]

RECURSIVE LexLess(_, _)
\* a < b for digit sequences of one length
LexLess(a, b) ==
    IF a = <<>> THEN FALSE
    ELSE IF Head(a) # Head(b) THEN Head(a) < Head(b)
    ELSE LexLess(Tail(a), Tail(b))

\* a < b for magnitudes
Less(a, b) == IF Len(a) # Len(b) THEN Len(a) < Len(b) ELSE LexLess(a, b)

LessEq(a, b) == a = b \/ Less(a, b)

RECURSIVE StripZeros(_)
StripZeros(a) == IF Len(a) > 1 /\ Head(a) = 0 THEN StripZeros(Tail(a)) ELSE a

\* floor(a / 1000^k)
Shift(a, k) == IF Len(a) <= k THEN <<0>> ELSE SubSeq(a, 1, Len(a) - k)

RECURSIVE DivDigits(_, _, _)
\* the digits of floor(a / n) by long division, rem the running remainder
DivDigits(a, n, rem) ==
    IF a = <<>> THEN <<>>
    ELSE LET cur == rem * 1000 + Head(a)
         IN  <<cur \div n>> \o DivDigits(Tail(a), n, cur % n)

\* floor(a / n) for a divisor below 10^6
DivSmall(a, n) == StripZeros(DivDigits(a, n, 0))

RECURSIVE ToInt(_)
\* the integer of a magnitude below 2^31
ToInt(a) == IF a = <<>> THEN 0 ELSE ToInt(SubSeq(a, 1, Len(a) - 1)) * 1000 + a[Len(a)]

\* 1e12, 1e14 and 1e17
E12 == <<1, 0, 0, 0, 0>>
E14 == <<100, 0, 0, 0, 0>>
E17 == <<100, 0, 0, 0, 0, 0>>

\* the last second datetime can hold, 9999-12-31T23:59:59Z, as a timestamp
MaxTimestamp == <<253, 402, 300, 799>>

\* 1970-01-01 in days since 1950-01-01
UnixEpochDay == 7305

SecondsPerDay == 86400

\* the outcome of a call that raises an exception
Raised == -1000003

\* datetime.utcfromtimestamp(seconds), an instant being modelled by its day
\* since 1950-01-01; the call raises past year 9999
utcfromtimestamp(seconds) ==
    IF Less(MaxTimestamp, seconds) THEN Raised
    ELSE UnixEpochDay + ToInt(DivSmall(seconds, SecondsPerDay))

\* a conversion without a handler: the exception leaves julian_to_datetime
Uncaught(result) == result

\* "try: ... except Exception: return None" around a conversion
Caught(result) == IF result = Raised THEN NoneV ELSE result

(***************************************************************************)
(* String helpers: str.endswith, the "in" substring test.                  *)
(***************************************************************************)
EndsWith(s, suf) ==
    /\ Len(s) >= Len(suf)
    /\ SubSeq(s, Len(s) - Len(suf) + 1, Len(s)) = suf

Contains(s, sub) ==
    \E k \in 1..(Len(s) - Len(sub) + 1) : SubSeq(s, k, k + Len(sub) - 1) = sub

Digits == {"0", "1", "2", "3", "4", "5", "6", "7", "8", "9"}

\* re.search(r'^[0-9]+/$', l)
IsFloatDir(l) ==
    /\ Len(l) >= 2
    /\ SubSeq(l, Len(l), Len(l)) = "/"
    /\ \A k \in 1..(Len(l) - 1) : SubSeq(l, k, k) \in Digits

(***************************************************************************)
(* The inputs: a catalogue of datasets (what xr.open_dataset yields for a  *)
(* payload).  A dataset maps variable names to arrays over N_PROF; level   *)
(* variables are N_PROF x N_LEVELS, padded with NaN as in the file format. *)
(*   dsA: index 0 healthy with one missing-pressure level, index 1 with a  *)
(*        repeated pressure.                                               *)
(*   dsB: index 0 has an undecodable timestamp, index 1 re-reports         *)
(*        platform 1 cycle 1 with other values.                            *)
(*   dsC: index 0 has no level with a pressure, index 1 has an unparseable *)
(*        cycle number, index 2 is platform 1 cycle 1 as in dsA.           *)
(*   dsD: one profile, in a dataset that has no LATITUDE variable.         *)
(*   dsE: two profiles with different identities, ("7-", 1) and ("7", -1), *)
(*        in a dataset that has no TEMP and no PRES_QC variable.           *)
(*   dsF: two profiles whose TEMP has another number of levels than PRES,  *)
(*        whose PSAL has no N_PROF dimension, another length and an        *)
(*        integer dtype, and whose TEMP_ADJUSTED cannot be read.           *)
(*   dsG: two profiles in a dataset that has no PRES variable; index 1 has *)
(*        an undecodable timestamp.                                        *)
(*   dsH: the identities of index 0 of dsC and of both indices of dsG,     *)
(*        with a pressure at every level.                                  *)
(* INT names the variables of a dataset with an integer dtype, UNREADABLE  *)
(* those whose values cannot be loaded: reading them raises an error of    *)
(* the I/O layer, which is none of KeyError, ValueError and IndexError.    *)
(***************************************************************************)
dsA ==
    [ N_PROF          |-> 2,
      PLATFORM_NUMBER |-> <<"1 ", "2 ">>,
      CYCLE_NUMBER    |-> <<1, 1>>,
      JULD            |-> <<Wide(100), Wide(200)>>,
      LATITUDE        |-> <<10, 20>>,
      LONGITUDE       |-> <<60, 70>>,
      DATA_MODE       |-> <<"R", "D">>,
      PRES            |-> << <<5, NaN, 7>>, <<5, 5, 9>> >>,
      TEMP            |-> << <<20, 21, NaN>>, <<3, 4, 5>> >>,
      PRES_QC         |-> << <<"1", "9", "1">>, <<"1", "1", "4">> >> ]

dsB ==
    [ N_PROF          |-> 2,
      PLATFORM_NUMBER |-> <<"3", "1">>,
      CYCLE_NUMBER    |-> <<1, 1>>,
      JULD            |-> <<NaNW, Wide(150)>>,
      LATITUDE        |-> <<30, 11>>,
      LONGITUDE       |-> <<80, 61>>,
      DATA_MODE       |-> <<"R", "D">>,
      PRES            |-> << <<4, NaN>>, <<8, 9>> >>,
      TEMP            |-> << <<3, NaN>>, <<1, 2>> >>,
      PRES_QC         |-> << <<"1", "9">>, <<"1", "1">> >> ]

dsC ==
    [ N_PROF          |-> 3,
      PLATFORM_NUMBER |-> <<"4 ", "4 ", "1 ">>,
      CYCLE_NUMBER    |-> <<1, NaN, 1>>,
      JULD            |-> <<Wide(400), Wide(400), Wide(100)>>,
      LATITUDE        |-> <<40, 40, 10>>,
      LONGITUDE       |-> <<45, 45, 60>>,
      DATA_MODE       |-> <<"R", "R", "R">>,
      PRES            |-> << <<NaN, NaN>>, <<1, 2>>, <<5, 7>> >>,
      TEMP            |-> << <<9, 9>>, <<1, 2>>, <<20, NaN>> >>,
      PRES_QC         |-> << <<"9", "9">>, <<"1", "1">>, <<"1", "1">> >> ]

dsD ==
    [ N_PROF          |-> 1,
      PLATFORM_NUMBER |-> <<"5">>,
      CYCLE_NUMBER    |-> <<1>>,
      JULD            |-> <<Wide(300)>>,
      LONGITUDE       |-> <<50>>,
      DATA_MODE       |-> <<"A">>,
      PRES            |-> << <<3, 6>> >>,
      TEMP            |-> << <<8, 9>> >>,
      PRES_QC         |-> << <<"1", "1">> >> ]

dsE ==
    [ N_PROF          |-> 2,
      PLATFORM_NUMBER |-> <<"7-", "7">>,
      CYCLE_NUMBER    |-> <<1, -1>>,
      JULD            |-> <<Wide(500), Wide(600)>>,
      LATITUDE        |-> <<-5, -6>>,
      LONGITUDE       |-> <<15, 16>>,
      DATA_MODE       |-> <<"R", "R">>,
      PRES            |-> << <<2, 4>>, <<6, 8>> >> ]

dsF ==
    [ N_PROF          |-> 2,
      PLATFORM_NUMBER |-> <<"8", "8">>,
      CYCLE_NUMBER    |-> <<1, 2>>,
      JULD            |-> <<Wide(700), Wide(701)>>,
      LATITUDE        |-> <<0, 1>>,
      LONGITUDE       |-> <<-30, -31>>,
      DATA_MODE       |-> <<"R", "R">>,
      PRES            |-> << <<1, 2, 3>>, <<4, 5, 6>> >>,
      TEMP            |-> << <<10, 11>>, <<12, 13>> >>,
      TEMP_ADJUSTED   |-> << <<10, 11, 12>>, <<13, 14, 15>> >>,
      PSAL            |-> << <<35, 36>> >>,
      PRES_QC         |-> << <<"1", "1", "1">>, <<"1", "2", "1">> >>,
      TEMP_QC         |-> << <<"1", "1">>, <<"1", "1">> >>,
      INT             |-> {"PSAL"},
      UNREADABLE      |-> {"TEMP_ADJUSTED"} ]

dsG ==
    [ N_PROF          |-> 2,
      PLATFORM_NUMBER |-> <<"6", "6">>,
      CYCLE_NUMBER    |-> <<1, 2>>,
      JULD            |-> <<Wide(800), NaNW>>,
      LATITUDE        |-> <<15, 16>>,
      LONGITUDE       |-> <<65, 66>>,
      DATA_MODE       |-> <<"R", "R">>,
      TEMP            |-> << <<5, 6>>, <<7, 8>> >>,
      PRES_QC         |-> << <<"1", "1">>, <<"1", "1">> >> ]

dsH ==
    [ N_PROF          |-> 3,
      PLATFORM_NUMBER |-> <<"4", "6", "6">>,
      CYCLE_NUMBER    |-> <<1, 1, 2>>,
      JULD            |-> <<Wide(400), Wide(800), Wide(801)>>,
      LATITUDE        |-> <<40, 15, 16>>,
      LONGITUDE       |-> <<45, 65, 66>>,
      DATA_MODE       |-> <<"D", "D", "D">>,
      PRES            |-> << <<1, 2>>, <<3, 4>>, <<5, 6>> >>,
      TEMP            |-> << <<9, 9>>, <<5, 6>>, <<7, 8>> >>,
      PRES_QC         |-> << <<"1", "1">>, <<"1", "1">>, <<"1", "1">> >> ]

FileIds == {"A", "B", "C"}

Dataset(f) ==
    CASE f = "A" -> dsA [] f = "B" -> dsB [] f = "C" -> dsC
      [] f = "D" -> dsD [] f = "E" -> dsE [] f = "F" -> dsF
      [] f = "G" -> dsG [] f = "H" -> dsH

\* a payload that is not a dataset: xr.open_dataset raises on it
NotADataset == "X"

Opens(f) == f # NotADataset

(***************************************************************************)
(* The archive: directory listings (the href targets of a page, in page    *)
(* order) and the payload behind each file URL.                            *)
(***************************************************************************)
RootUrl == "h/d/"

\* the root of a second, smaller archive
SmallRootUrl == "h/e/"

\* the root of an archive whose only float directory holds a profiles/ folder
\* with two .nc files
ScenarioRootUrl == "h/f/"

Listing(url) ==
    CASE url = "h/d/"            -> <<"1/", "t/", "2/">>
      [] url = "h/d/1/"          -> <<"1_prof.nc", "profiles/">>
      [] url = "h/d/1/profiles/" -> <<"R1.nc", "i.txt">>
      [] url = "h/d/2/"          -> <<"profiles/">>
      [] url = "h/d/2/profiles/" -> <<"R2.nc">>
      [] url = "h/e/"            -> <<"9/", "8/">>
      [] url = "h/e/9/"          -> <<"9_prof.nc", "profiles/">>
      [] url = "h/e/9/profiles/" -> <<"R9.nc">>
      [] url = "h/f/"            -> <<"../", "3/">>
      [] url = "h/f/3/"          -> <<"meta.txt", "profiles/">>
      [] url = "h/f/3/profiles/" -> <<"R3.nc", "D3.nc", "i.txt">>
      [] OTHER                   -> <<>>

Payload(url) ==
    CASE url = "h/d/1/1_prof.nc"        -> "A"
      [] url = "h/d/1/profiles/R1.nc"   -> "B"
      [] url = "h/d/2/profiles/R2.nc"   -> "C"
      [] url = "h/s.nc"                 -> "B"
      [] url = "h/p/x_prof.nc"          -> NotADataset
      [] url = "h/e/9/9_prof.nc"        -> "D"
      [] url = "h/e/9/profiles/R9.nc"   -> "E"
      [] OTHER                          -> "A"

\* the URLs a caller may hand to coordinate_argo_ingestion
StartUrls == {"h/d/", "h/d/1/1_prof.nc", "h/s.nc", "h/x"}

\* those of them that do not name a directory
FileUrls == {u \in StartUrls : ~EndsWith(u, "/")}

\* a list of names joined to the base in reverse order
JoinedReversed(base, names) ==
    [k \in 1..Len(names) |-> base \o names[Len(names) + 1 - k]]

\* urljoin(base, name) for a base ending in "/" and a relative name
urljoin(base, name) == base \o name

(***************************************************************************)
(* Field extraction.                                                       *)
(***************************************************************************)
RECURSIVE Strip(_)
\* str.strip(): leading and trailing blanks removed
Strip(x) ==
    IF Len(x) > 0 /\ SubSeq(x, 1, 1) = " " THEN Strip(SubSeq(x, 2, Len(x)))
    ELSE IF Len(x) > 0 /\ SubSeq(x, Len(x), Len(x)) = " "
         THEN Strip(SubSeq(x, 1, Len(x) - 1))
         ELSE x

decode_bytes(x) == Strip(x)

\* safe_index on a numeric variable: the value at index i, NaN past the end
\* (the variables of the catalogue all have the N_PROF dimension)
safe_index(val, i) == IF i < Len(val) THEN val[i + 1] ELSE NaN

\* safe_index on a string variable: the value at index i, None past the end
safe_index_str(val, i) == IF i < Len(val) THEN <<val[i + 1]>> ELSE <<>>

\* platform_number of index i: the decoded string, or "" when it is None
PlatformNumber(ds, i) ==
    LET raw == safe_index_str(ds.PLATFORM_NUMBER, i)
    IN  IF raw = <<>> THEN "" ELSE decode_bytes(raw[1])

\* cycle_number of index i, the sentinel when missing
CycleNumber(ds, i) ==
    LET raw == safe_index(ds.CYCLE_NUMBER, i)
    IN  IF raw # NaN THEN raw ELSE CycleSentinel

IdentityValid(ds, i) ==
    /\ PlatformNumber(ds, i) # ""
    /\ CycleNumber(ds, i) # CycleSentinel

composite_key(platform_number, cycle_number) ==
    platform_number \o "-" \o ToString(cycle_number)

\* safe_index on JULD: the wide value at index i, NaN past the end
safe_index_wide(val, i) == IF i < Len(val) THEN val[i + 1] ELSE NaNW

\* the decision ladder, first match wins; the result is the day since
\* 1950-01-01 the instant falls on, or None
julian_to_datetime(juld_val) ==
    LET v == juld_val.mag
    IN  IF juld_val = NaNW THEN NoneV
        ELSE IF juld_val.neg THEN NoneV
        ELSE IF LessEq(v, Wide(50000).mag) THEN ToInt(v)
        ELSE IF Less(E17, v) THEN Caught(utcfromtimestamp(Shift(v, 3)))
        ELSE IF Less(E12, v) /\ Less(v, E17)
             THEN Caught(utcfromtimestamp(Shift(v, IF Less(v, E14) THEN 1 ELSE 2)))
        ELSE NoneV

(***************************************************************************)
(* Ocean lookup.  Latitudes and longitudes are whole degrees; a float that *)
(* is infinite is PosInf or NegInf.  haversine_distance is modelled by a   *)
(* quantity that grows with it: 2 * 10^9 * a, where                        *)
(*   a = sin^2(dlat/2) + cos(lat1) cos(lat2) sin^2(dlon/2)                 *)
(* and the distance is 2 R arcsin(sqrt(a)), with sin^2(x/2) taken as       *)
(* (1 - cos x)/2 and cosines from a table in thousandths.  A non-finite    *)
(* argument makes np.sin return NaN, and so the distance.  (In float64, a  *)
(* can exceed 1 by one rounding step at the antipode of a table entry; the *)
(* distance to that entry is then NaN, and the entry, the farthest one, is *)
(* passed over as it would be with its distance.)                          *)
(***************************************************************************)
PosInf == 2147483647
NegInf == -2147483647

IsFinite(x) == x \notin {NaN, PosInf, NegInf}

OCEAN_COORDS ==
    << [name |-> "Pacific Ocean",     lat |-> 0,   lon |-> -160],
       [name |-> "Atlantic Ocean",    lat |-> 0,   lon |-> -30],
       [name |-> "Indian Ocean",      lat |-> -20, lon |-> 80],
       [name |-> "Southern Ocean",    lat |-> -60, lon |-> 0],
       [name |-> "Arctic Ocean",      lat |-> 75,  lon |-> 0],
       [name |-> "Arabian Sea",       lat |-> 15,  lon |-> 65],
       [name |-> "Bay of Bengal",     lat |-> 15,  lon |-> 90],
       [name |-> "Mediterranean Sea", lat |-> 35,  lon |-> 18],
       [name |-> "Caribbean Sea",     lat |-> 15,  lon |-> -75],
       [name |-> "Bering Sea",        lat |-> 60,  lon |-> -180] >>

\* 1000 * cos of 0, 1, ..., 90 degrees
CosTable ==
    <<1000, 1000, 999, 999, 998, 996, 995, 993, 990, 988, 985, 982, 978, 974, 970,
      966, 961, 956, 951, 946, 940, 934, 927, 921, 914, 906, 899, 891, 883, 875,
      866, 857, 848, 839, 829, 819, 809, 799, 788, 777, 766, 755, 743, 731, 719,
      707, 695, 682, 669, 656, 643, 629, 616, 602, 588, 574, 559, 545, 530, 515,
      500, 485, 469, 454, 438, 423, 407, 391, 375, 358, 342, 326, 309, 292, 276,
      259, 242, 225, 208, 191, 174, 156, 139, 122, 105, 87, 70, 52, 35, 17, 0>>

\* 1000 * np.cos(np.radians(x)) for a whole number of degrees
CosDeg(x) ==
    LET r == x % 360
    IN  IF r <= 90 THEN CosTable[r + 1]
        ELSE IF r <= 180 THEN 0 - CosTable[180 - r + 1]
        ELSE IF r <= 270 THEN 0 - CosTable[r - 180 + 1]
        ELSE CosTable[360 - r + 1]

haversine_distance(lat1, lon1, lat2, lon2) ==
    IF ~IsFinite(lat1) \/ ~IsFinite(lon1) THEN NaN
    ELSE (1000 - CosDeg(lat2 - lat1)) * 1000000
         + CosDeg(lat1) * CosDeg(lat2) * (1000 - CosDeg(lon2 - lon1))

\* a comparison that takes NaN for a number
IntLess(a, b) == a < b

\* a < b on floats: False when either side is NaN
FloatLess(a, b) == a # NaN /\ b # NaN /\ a < b

RECURSIVE NearestFrom(_, _, _, _, _)
\* the loop over OCEAN_COORDS.items(), from entry k on
NearestFrom(lat, lon, k, nearest, min_dist) ==
    IF k > Len(OCEAN_COORDS) THEN nearest
    ELSE LET d == haversine_distance(lat, lon, OCEAN_COORDS[k].lat, OCEAN_COORDS[k].lon)
         IN  IF FloatLess(d, min_dist)
             THEN NearestFrom(lat, lon, k + 1, OCEAN_COORDS[k].name, d)
             ELSE NearestFrom(lat, lon, k + 1, nearest, min_dist)

get_nearest_ocean(lat, lon) ==
    IF lat = NaN \/ lon = NaN THEN "Unknown"
    ELSE NearestFrom(lat, lon, 1, "Unknown", PosInf)

IntDtype(ds, var_name) == "INT" \in DOMAIN ds /\ var_name \in ds.INT

Unreadable(ds, var_name) == "UNREADABLE" \in DOMAIN ds /\ var_name \in ds.UNREADABLE

\* what _extract_profile_array(ds, var_name, i) ends in: "ok", or the class
\* of the exception it raises.  A variable that spans N_PROF > 1 is indexed
\* with isel; any other is flattened whole, whatever i is.
ExtractOutcome(ds, var_name, i) ==
    IF var_name \notin DOMAIN ds THEN "KeyError"
    ELSE IF Len(ds[var_name]) > 1 /\ i >= Len(ds[var_name]) THEN "IndexError"
    ELSE IF Unreadable(ds, var_name) THEN "RuntimeError"
    ELSE "ok"

\* the array _extract_profile_array returns when it ends in "ok"
_extract_profile_array(ds, var_name, i) ==
    IF Len(ds[var_name]) > 1 THEN ds[var_name][i + 1] ELSE ds[var_name][1]

Fill(n, v) == [k \in 1..n |-> v]

\* the second try block of get_array_or_default is left by "Length mismatch"
\* or by a KeyError or IndexError of the extraction: its handler runs
Defaulted(ds, var_name, i) ==
    \/ ExtractOutcome(ds, var_name, i) \in {"KeyError", "IndexError"}
    \/ /\ ExtractOutcome(ds, var_name, i) = "ok"
       /\ Len(_extract_profile_array(ds, var_name, i))
             # Len(_extract_profile_array(ds, "PRES", i))

\* get_array_or_default raises: the extraction of the variable raised an
\* exception its handler does not name, or the handler itself raised, when
\* np.full is given NaN and the integer dtype of the variable
Raises(ds, var_name, i, is_qc_flag) ==
    /\ ExtractOutcome(ds, "PRES", i) = "ok"
    /\ \/ ExtractOutcome(ds, var_name, i) = "RuntimeError"
       \/ /\ Defaulted(ds, var_name, i)
          /\ ~is_qc_flag /\ IntDtype(ds, var_name)

\* a get_array_or_default that returns the array of the variable whatever
\* its length
GetArrayUnchecked(ds, var_name, i, is_qc_flag) ==
    IF ExtractOutcome(ds, "PRES", i) # "ok"
    THEN IF is_qc_flag THEN <<"9">> ELSE <<NaN>>
    ELSE IF ExtractOutcome(ds, var_name, i) = "ok"
         THEN _extract_profile_array(ds, var_name, i)
         ELSE Fill(Len(_extract_profile_array(ds, "PRES", i)),
                   IF is_qc_flag THEN "9" ELSE NaN)

\* the array get_array_or_default returns, when it returns
get_array_or_default(ds, var_name, i, is_qc_flag) ==
    IF ExtractOutcome(ds, "PRES", i) # "ok"
    THEN IF is_qc_flag THEN <<"9">> ELSE <<NaN>>
    ELSE LET array_size == Len(_extract_profile_array(ds, "PRES", i))
         IN  IF Defaulted(ds, var_name, i)
             THEN Fill(array_size, IF is_qc_flag THEN "9" ELSE NaN)
             ELSE _extract_profile_array(ds, var_name, i)

\* the variables process_single_netcdf_file asks get_array_or_default for
ArrayVars ==
    {"PRES", "TEMP", "TEMP_ADJUSTED", "PSAL", "PSAL_ADJUSTED",
     "PRES_QC", "TEMP_QC", "PSAL_QC"}

IsQcFlag(var_name) == var_name \in {"PRES_QC", "TEMP_QC", "PSAL_QC"}

\* one of the eight calls of get_array_or_default for index i raises (none
\* does in a dataset all of whose variables load and are floats or flags)
ArraysRaise(ds, i) ==
    /\ {"INT", "UNREADABLE"} \cap DOMAIN ds # {}
    /\ \E var_name \in ArrayVars : Raises(ds, var_name, i, IsQcFlag(var_name))

\* float(x) if not NaN else None
FloatOrNone(x) == IF x # NaN THEN x ELSE NoneV

RECURSIVE LevelRowsAll(_, _, _, _, _)
\* the level loop without the test of the pressure
LevelRowsAll(pk, pres_arr, temp_arr, pres_qc_arr, level) ==
    IF level > Len(pres_arr) THEN <<>>
    ELSE << [ profile     |-> pk,
              pressure    |-> pres_arr[level],
              temperature |-> FloatOrNone(temp_arr[level]),
              pres_qc     |-> decode_bytes(pres_qc_arr[level]) ] >>
         \o LevelRowsAll(pk, pres_arr, temp_arr, pres_qc_arr, level + 1)

RECURSIVE LevelRows(_, _, _, _, _)
\* the level loop: one row per level whose pressure is not NaN
LevelRows(pk, pres_arr, temp_arr, pres_qc_arr, level) ==
    IF level > Len(pres_arr) THEN <<>>
    ELSE ( IF pres_arr[level] # NaN
           THEN << [ profile     |-> pk,
                     pressure    |-> pres_arr[level],
                     temperature |-> FloatOrNone(temp_arr[level]),
                     pres_qc     |-> decode_bytes(pres_qc_arr[level]) ] >>
           ELSE <<>> )
         \o LevelRows(pk, pres_arr, temp_arr, pres_qc_arr, level + 1)

\* current_measurements of profile index i, attached to the header pk
current_measurements(ds, i, pk) ==
    LevelRows(pk,
              get_array_or_default(ds, "PRES", i, FALSE),
              get_array_or_default(ds, "TEMP", i, FALSE),
              get_array_or_default(ds, "PRES_QC", i, TRUE),
              1)

\* the variables read as ds[...] between the existence check and the
\* transaction; one that is absent from the dataset raises KeyError
RequiredVars == {"LATITUDE", "LONGITUDE", "JULD", "DATA_MODE"}

Extracts(ds) == RequiredVars \subseteq DOMAIN ds

\* the header row ArgoProfileData.objects.create is given; src is a history
\* field naming the dataset and index the row was built from
HeaderRow(f, i) ==
    LET ds == Dataset(f)
    IN  [ platform_number |-> PlatformNumber(ds, i),
          cycle_number    |-> CycleNumber(ds, i),
          juld_date       |-> julian_to_datetime(safe_index_wide(ds.JULD, i)),
          latitude        |-> safe_index(ds.LATITUDE, i),
          longitude       |-> safe_index(ds.LONGITUDE, i),
          data_mode       |-> LET raw == safe_index_str(ds.DATA_MODE, i)
                              IN  IF raw = <<>> THEN "R" ELSE decode_bytes(raw[1]),
          data_centre_ref |-> composite_key(PlatformNumber(ds, i), CycleNumber(ds, i)),
          src             |-> <<f, i>> ]

(***************************************************************************)
(* The store.  db.profiles and db.measurements are the two tables, rows in *)
(* insertion order; the primary key of a header is its position.           *)
(***************************************************************************)
Rows(table) == {table[k] : k \in 1..Len(table)}

Entries(log) == {log[k] : k \in 1..Len(log)}

\* an existence check that finds nothing
ExistsNever(store, platform_number, cycle_number) == FALSE

\* ArgoProfileData.objects.filter(platform_number=, cycle_number=).exists()
Exists(store, platform_number, cycle_number) ==
    \E r \in Rows(store.profiles) :
        /\ r.platform_number = platform_number
        /\ r.cycle_number = cycle_number

\* a profile table without its uniqueness constraints
UniqueNotEnforced(store, row) == FALSE

\* unique_together (platform_number, cycle_number) and unique data_centre_ref
UniqueViolated(store, row) ==
    \E r \in Rows(store.profiles) :
        \/ /\ r.platform_number = row.platform_number
           /\ r.cycle_number = row.cycle_number
        \/ r.data_centre_ref = row.data_centre_ref

\* juld_date is declared without null=True
NotNullViolated(row) == row.juld_date = NoneV

\* unique_together (profile, pressure) over the rows of one bulk insert
PressureRepeated(rows) ==
    \E k, l \in 1..Len(rows) : k < l /\ rows[k].pressure = rows[l].pressure

\* what the insert of the header does: "ok" or the error it raises
HeaderInsert(store, row, fault) ==
    IF fault = "header" THEN "dberror"
    ELSE IF NotNullViolated(row) THEN "notnull"
    ELSE IF UniqueViolated(store, row) THEN "unique"
    ELSE "ok"

\* what bulk_create does; it is not called for an empty batch, and the
\* batches of the catalogue fit one INSERT (batch_size is 5000)
BulkCreate(rows, fault) ==
    IF rows = <<>> THEN "ok"
    ELSE IF fault = "bulk" THEN "dberror"
    ELSE IF PressureRepeated(rows) THEN "duppres"
    ELSE "ok"

\* the block without a transaction: its writes stay when it is left
NoRollback(before, written, ok) == written

\* with transaction.atomic(): the block's writes on normal exit, the state
\* before the block when it is left by an exception
Atomic(before, written, ok) == IF ok THEN written ELSE before

\* the count raised before the outcome of the block is known
CountedAlways(total, rows, ok) == total + Len(rows)

\* total_measurements_saved after the block
Counted(total, rows, ok) == IF ok THEN total + Len(rows) ELSE total

(***************************************************************************)
(* Directory listing and traversal.                                        *)
(***************************************************************************)
IsProfName(l) == EndsWith(l, "_prof.nc")
IsNcName(l) == EndsWith(l, ".nc")

\* a listing that returns every link of the page, whatever the pattern
ListLinksUnfiltered(url, pattern, ok) == IF ~ok THEN <<>> ELSE Listing(url)

\* list_links(url, pattern): the links of the page that match the pattern,
\* in page order; the empty list when every attempt failed (ok = FALSE)
list_links(url, pattern, ok) ==
    IF ~ok THEN <<>>
    ELSE CASE pattern = "float" -> SelectSeq(Listing(url), IsFloatDir)
           [] pattern = "prof"  -> SelectSeq(Listing(url), IsProfName)
           [] pattern = "nc"    -> SelectSeq(Listing(url), IsNcName)
           [] OTHER             -> Listing(url)   \* no pattern ("links")

Min(a, b) == IF a < b THEN a ELSE b
Max(a, b) == IF a > b THEN a ELSE b

\* the names of one listing that the generator yields: all of them without a
\* limit; with one, the count is compared with the limit after each yield
Yielded(names, count, limit) ==
    IF limit = NoLimit THEN names
    ELSE SubSeq(names, 1, Min(Len(names), Max(1, limit - count)))

\* "if limit is not None and count >= limit: return", after a yield
Capped(yielded, count, limit) ==
    /\ limit # NoLimit
    /\ yielded # <<>>
    /\ count + Len(yielded) >= limit

Joined(base, names) == [k \in 1..Len(names) |-> urljoin(base, names[k])]

\* a loop over the float directories that is left when a listing failed
AbortOnFailure(k, float_dirs, ok) == IF ok THEN k + 1 ELSE Len(float_dirs) + 1

\* "for fdir in float_dirs": the directory after directory k, whether or not
\* the listings of directory k were answered
NextIndex(k, float_dirs, ok) == k + 1

RECURSIVE WalkDirs(_, _, _, _, _, _, _)
\* the loop of recursive_nc_files over float_dirs, from directory k on, with
\* n calls of list_links made and count URLs yielded so far; oks[j] tells
\* whether the j-th call of list_links gets its page.  The result is the
\* URLs yielded and the listing requests made, both in order.
WalkDirs(base_url, float_dirs, k, count, limit, oks, n) ==
    IF k > Len(float_dirs) THEN [urls |-> <<>>, reqs |-> <<>>]
    ELSE
    LET fdir_url == urljoin(base_url, float_dirs[k])
        direct   == Yielded(list_links(fdir_url, "prof", oks[n + 1]), count, limit)
        links    == list_links(fdir_url, "", oks[n + 2])
        prof_url == urljoin(fdir_url, "profiles/")
        hasProf  == "profiles/" \in {links[j] : j \in 1..Len(links)}
        count2   == count + Len(direct)
        inProf   == Yielded(list_links(prof_url, "nc", oks[n + 3]), count2, limit)
    IN  IF Capped(direct, count, limit)
        THEN [urls |-> Joined(fdir_url, direct), reqs |-> <<fdir_url>>]
        ELSE IF ~hasProf
        THEN LET next == NextIndex(k, float_dirs, oks[n + 1] /\ oks[n + 2])
                 rest == WalkDirs(base_url, float_dirs, next, count2, limit, oks, n + 2)
             IN  [urls |-> Joined(fdir_url, direct) \o rest.urls,
                  reqs |-> <<fdir_url, fdir_url>> \o rest.reqs]
        ELSE IF Capped(inProf, count2, limit)
        THEN [urls |-> Joined(fdir_url, direct) \o Joined(prof_url, inProf),
              reqs |-> <<fdir_url, fdir_url, prof_url>>]
        ELSE LET next == NextIndex(k, float_dirs,
                                   oks[n + 1] /\ oks[n + 2] /\ oks[n + 3])
                 rest == WalkDirs(base_url, float_dirs, next, count2 + Len(inProf),
                                  limit, oks, n + 3)
             IN  [urls |-> Joined(fdir_url, direct) \o Joined(prof_url, inProf)
                           \o rest.urls,
                  reqs |-> <<fdir_url, fdir_url, prof_url>> \o rest.reqs]

\* recursive_nc_files(base_url, limit), consumed to its end
recursive_nc_files(base_url, limit, oks) ==
    LET float_dirs == list_links(base_url, "float", oks[1])
        walk       == WalkDirs(base_url, float_dirs, 1, 0, limit, oks, 1)
    IN  [urls |-> walk.urls, reqs |-> <<base_url>> \o walk.reqs]

\* the most calls of list_links one traversal of the archive makes
NumCalls == 1 + 3 * Len(list_links(RootUrl, "float", TRUE))

Oks == [1..NumCalls -> BOOLEAN]

AllOk == [j \in 1..NumCalls |-> TRUE]

(***************************************************************************)
(* Workers.  A worker is one thread of control that makes ingestion calls  *)
(* one after the other; workers share the store only.                      *)
(***************************************************************************)
\* no function is applied on its own
NoCall == [pc |-> "none"]

Idle ==
    [ pc |-> "idle", src |-> <<"none", "">>,
      queue |-> <<>>, qi |-> 0, nlist |-> 0,
      file |-> "", i |-> 0, total |-> 0, ingested |-> 0,
      race |-> FALSE, log |-> <<>>, added |-> 0, gets |-> <<>>, files |-> <<>>,
      failed |-> <<>>,
      phase |-> "", dirs |-> <<>>, k |-> 0, attempt |-> 0, maxtries |-> 0 ]

RECURSIVE Sum(_, _)
Sum(f, S) == IF S = {} THEN 0
             ELSE LET x == CHOOSE y \in S : TRUE IN f[x] + Sum(f, S \ {x})

RunsStarted ==
    Sum([w \in Workers |-> Len(hist[w]) + (IF wk[w].pc = "idle" THEN 0 ELSE 1)],
        Workers)

Init ==
    /\ db = [profiles |-> <<>>, measurements |-> <<>>]
    /\ wk = [w \in Workers |-> Idle]
    /\ hist = [w \in Workers |-> <<>>]
    /\ pure = NoCall

\* the call returns ret: it is recorded and the worker is free again
Returned(w, rec, ret) ==
    /\ hist' = [hist EXCEPT ![w] = Append(@, [ src |-> rec.src, ret |-> ret,
                                               added |-> rec.added, log |-> rec.log,
                                               gets |-> rec.gets, files |-> rec.files,
                                               nlist |-> rec.nlist, queue |-> rec.queue,
                                               failed |-> rec.failed,
                                               maxtries |-> rec.maxtries ])]
    /\ wk' = [wk EXCEPT ![w] = Idle]

\* process_uploaded_netcdf_file(uploaded_file); a payload that does not open
\* makes process_single_netcdf_file return 0 from its outer handler
process_uploaded_netcdf_file(w, f, cap) ==
    /\ wk[w].pc = "idle"
    /\ RunsStarted < cap
    /\ LET rec == [Idle EXCEPT !.src = <<"upload", f>>, !.file = f, !.files = <<f>>]
       IN  IF Opens(f)
           THEN /\ wk' = [wk EXCEPT ![w] = [rec EXCEPT !.pc = "check"]]
                /\ UNCHANGED hist
           ELSE Returned(w, rec, 0)
    /\ UNCHANGED db

\* a dispatch that takes every URL that is not a file for a directory
UrlKindLenient(base_url) ==
    IF EndsWith(base_url, ".nc") THEN "file" ELSE "directory"

\* the branch coordinate_argo_ingestion takes on base_url
UrlKind(base_url) ==
    IF EndsWith(base_url, ".nc") THEN "file"
    ELSE IF EndsWith(base_url, "/") THEN "directory"
    ELSE "invalid"

\* coordinate_argo_ingestion(base_url): the dispatch on the shape of the URL;
\* a directory is traversed to its end before the first download
coordinate_argo_ingestion(w, base_url, oks, cap) ==
    /\ wk[w].pc = "idle"
    /\ RunsStarted < cap
    /\ LET rec   == [Idle EXCEPT !.src = <<"url", base_url>>]
           crawl == recursive_nc_files(base_url, NoLimit, oks)
       IN  IF UrlKind(base_url) = "file"
           THEN /\ wk' = [wk EXCEPT ![w] = [rec EXCEPT !.pc = "fetch", !.qi = 1,
                                                       !.queue = <<base_url>>]]
                /\ UNCHANGED hist
           ELSE IF UrlKind(base_url) = "directory"
           THEN /\ wk' = [wk EXCEPT ![w] = [rec EXCEPT !.pc = "fetch", !.qi = 1,
                                                       !.queue = crawl.urls,
                                                       !.nlist = Len(crawl.reqs)]]
                /\ UNCHANGED hist
           ELSE Returned(w, rec, 0)
    /\ UNCHANGED db

(***************************************************************************)
(* The traversal step by step: one step per requests.get of list_links.    *)
(* phase names the call of list_links the generator is in ("float": the    *)
(* root, "prof": the *_prof.nc files of directory k, "links": all links of *)
(* directory k, "nc": its profiles/ subdirectory), attempt the loop        *)
(* variable of list_links; maxtries is a history field, the most requests  *)
(* one call of list_links has made.                                        *)
(***************************************************************************)
retries == 3

\* a retry loop that runs once more than retries
AttemptsOffByOne(attempt) == attempt < retries

\* "for attempt in range(retries)": after the failure of this attempt there
\* is another one
MoreAttempts(attempt) == attempt + 1 < retries

\* coordinate_argo_ingestion(base_url) on a directory URL, up to the first
\* request of the traversal
CrawlBegin(w, base_url, cap) ==
    /\ wk[w].pc = "idle"
    /\ RunsStarted < cap
    /\ UrlKind(base_url) = "directory"
    /\ wk' = [wk EXCEPT ![w] = [Idle EXCEPT !.src = <<"url", base_url>>,
                                            !.pc = "list", !.phase = "float"]]
    /\ UNCHANGED <<db, hist>>

\* the URL the call of list_links under way fetches
ListUrl(rec) ==
    LET fdir_url == urljoin(rec.src[2], rec.dirs[rec.k])
    IN  CASE rec.phase = "float" -> rec.src[2]
          [] rec.phase = "nc"    -> urljoin(fdir_url, "profiles/")
          [] OTHER               -> fdir_url

\* the traversal is over: the download loop starts
CrawlEnd(rec) == [rec EXCEPT !.pc = "fetch", !.qi = 1, !.phase = "", !.dirs = <<>>,
                             !.k = 0]

\* the generator goes on to the next float directory, if there is one
NextDir(rec) ==
    IF rec.k + 1 > Len(rec.dirs) THEN CrawlEnd(rec)
    ELSE [rec EXCEPT !.k = @ + 1, !.phase = "prof"]

\* recursive_nc_files resumes with what list_links returned
Resume(rec, links) ==
    LET r == [rec EXCEPT !.attempt = 0, !.nlist = @ + 1]
    IN  CASE r.phase = "float" ->
               NextDir([r EXCEPT !.dirs = links])
          [] r.phase = "prof" ->
               [r EXCEPT !.queue = @ \o Joined(ListUrl(r), links), !.phase = "links"]
          [] r.phase = "links" ->
               IF "profiles/" \in Entries(links)
               THEN [r EXCEPT !.phase = "nc"]
               ELSE NextDir(r)
          [] r.phase = "nc" ->
               NextDir([r EXCEPT !.queue = @ \o Joined(ListUrl(r), links)])

\* list_links: one pass of the retry loop, requests.get and its outcome;
\* after the last failing attempt the call returns the empty list
ListAttempt(w, ok) ==
    /\ wk[w].pc = "list"
    /\ LET rec == [wk[w] EXCEPT !.maxtries = Max(@, wk[w].attempt + 1)]
       IN  wk' = [wk EXCEPT ![w] =
                    IF ok \/ ~MoreAttempts(rec.attempt)
                    THEN Resume(rec, list_links(ListUrl(rec), rec.phase, ok))
                    ELSE [rec EXCEPT !.attempt = @ + 1]]
    /\ UNCHANGED <<db, hist>>

\* the test the download loop applies to each URL of nc_urls_to_process
IsProfileUrl(url) == Contains(url, "_prof.nc") \/ Contains(url, "/profiles/")

\* coordinate_argo_ingestion: a URL of the list that fails the test is passed over
FetchSkip(w) ==
    /\ wk[w].pc = "fetch" /\ wk[w].qi <= Len(wk[w].queue)
    /\ ~IsProfileUrl(wk[w].queue[wk[w].qi])
    /\ wk' = [wk EXCEPT ![w].qi = @ + 1]
    /\ UNCHANGED <<db, hist>>

\* a download loop that is left at the first failure
Break(qi, queue) == Len(queue) + 1

\* "continue" in the download loop: on to the next URL of the list
Continue(qi, queue) == qi + 1

\* coordinate_argo_ingestion: requests.get(url); on success the payload is
\* handed to process_single_netcdf_file, which returns 0 at once for a
\* payload that does not open; on failure the file is skipped
Download(w, ok) ==
    /\ wk[w].pc = "fetch" /\ wk[w].qi <= Len(wk[w].queue)
    /\ LET url == wk[w].queue[wk[w].qi]
           rec == [wk[w] EXCEPT !.gets = Append(@, url)]
       IN  /\ IsProfileUrl(url)
           /\ wk' = [wk EXCEPT ![w] =
                        IF ok /\ Opens(Payload(url))
                        THEN [rec EXCEPT !.pc = "check", !.file = Payload(url),
                                         !.i = 0, !.total = 0,
                                         !.files = Append(@, Payload(url))]
                        ELSE IF ok
                        THEN [rec EXCEPT !.qi = @ + 1,
                                         !.files = Append(@, Payload(url))]
                        ELSE [rec EXCEPT !.qi = Continue(@, rec.queue),
                                         !.failed = Append(@, url)]]
    /\ UNCHANGED <<db, hist>>

\* coordinate_argo_ingestion: return ingested_measurements
CoordinateReturn(w) ==
    /\ wk[w].pc = "fetch" /\ wk[w].qi > Len(wk[w].queue)
    /\ Returned(w, wk[w], wk[w].ingested)
    /\ UNCHANGED db

(***************************************************************************)
(* process_single_netcdf_file: the loop over the profile indices of one    *)
(* dataset.  The existence query and the transaction are two accesses to   *)
(* the store; other workers may run between them.                          *)
(***************************************************************************)
Logged(rec, res, rows) ==
    [rec EXCEPT !.log = Append(@, [file |-> rec.file, i |-> rec.i, res |-> res,
                                   rows |-> rows, race |-> rec.race]),
                !.race = FALSE]

\* the key of the profile a worker is at
KeyAt(rec) ==
    LET ds == Dataset(rec.file)
    IN  <<PlatformNumber(ds, rec.i), CycleNumber(ds, rec.i)>>

\* the workers that have passed the existence check for the key of rec and
\* have not yet run their transaction
Pending(w, rec) ==
    {v \in Workers \ {w} : wk[v].pc = "persist" /\ KeyAt(wk[v]) = KeyAt(rec)}

\* identity decoding and the existence check of profile index i; race is a
\* history field: two workers are past the check for one key at once
CheckProfile(w) ==
    /\ wk[w].pc = "check"
    /\ wk[w].i < Dataset(wk[w].file).N_PROF
    /\ LET rec == wk[w]
           ds  == Dataset(rec.file)
       IN  IF ~IdentityValid(ds, rec.i)
           THEN wk' = [wk EXCEPT ![w] = [Logged(rec, "invalid", 0) EXCEPT !.i = @ + 1]]
           ELSE IF Exists(db, PlatformNumber(ds, rec.i), CycleNumber(ds, rec.i))
           THEN wk' = [wk EXCEPT ![w] = [Logged(rec, "exists", 0) EXCEPT !.i = @ + 1]]
           ELSE wk' = [v \in Workers |->
                         IF v = w
                         THEN [rec EXCEPT !.pc = "persist", !.race = Pending(w, rec) # {}]
                         ELSE IF v \in Pending(w, rec)
                         THEN [wk[v] EXCEPT !.race = TRUE]
                         ELSE wk[v]]
    /\ UNCHANGED <<db, hist>>

\* the extraction of the header fields and the transaction of profile index
\* i: header insert, then the bulk insert of its measurements; an exception
\* is caught by the handler of the index and the loop continues.  fault is a
\* failure of the store itself.
Persist(w, fault) ==
    /\ wk[w].pc = "persist"
    /\ LET rec     == wk[w]
           ds      == Dataset(rec.file)
           row     == HeaderRow(rec.file, rec.i)
           pk      == Len(db.profiles) + 1
           rows    == current_measurements(ds, rec.i, pk)
           hres    == IF ~Extracts(ds) THEN "keyerror"
                      ELSE IF ArraysRaise(ds, rec.i) THEN "raised"
                      ELSE HeaderInsert(db, row, fault)
           bres    == BulkCreate(rows, fault)
           res     == IF hres # "ok" THEN hres ELSE bres
           header  == [db EXCEPT !.profiles = Append(@, row)]
           written == IF hres # "ok" THEN db
                      ELSE IF bres # "ok" THEN header
                      ELSE [header EXCEPT !.measurements = @ \o rows]
           after   == Atomic(db, written, res = "ok")
           new     == Len(after.measurements) - Len(db.measurements)
       IN  /\ fault = "header" => (Extracts(ds) /\ ~ArraysRaise(ds, rec.i))
           /\ fault = "bulk" => (hres = "ok" /\ rows # <<>>)
           /\ db' = after
           /\ wk' = [wk EXCEPT ![w] =
                        [Logged(rec, IF res = "ok" THEN "saved" ELSE res, new) EXCEPT
                            !.pc = "check", !.i = @ + 1,
                            !.total = Counted(@, rows, res = "ok"),
                            !.added = @ + new]]
    /\ UNCHANGED hist

\* the loop is over: return total_measurements_saved, to the caller of
\* process_uploaded_netcdf_file or to the download loop
FileDone(w) ==
    /\ wk[w].pc = "check"
    /\ wk[w].i >= Dataset(wk[w].file).N_PROF
    /\ IF wk[w].src[1] = "upload"
       THEN Returned(w, wk[w], wk[w].total)
       ELSE /\ wk' = [wk EXCEPT ![w] = [@ EXCEPT !.pc = "fetch", !.qi = @ + 1,
                                                 !.ingested = @ + wk[w].total,
                                                 !.file = "", !.i = 0, !.total = 0]]
            /\ UNCHANGED hist
    /\ UNCHANGED db

Faults == {"none", "header", "bulk"}

\* the steps of the workers W, whose calls take their arguments from the
\* uploads F and the URLs U and number at most cap
Step(W, F, U, cap) ==
    /\ \E w \in W :
          \/ \E f \in F : process_uploaded_netcdf_file(w, f, cap)
          \/ \E u \in U :
                \E oks \in (IF EndsWith(u, "/") THEN Oks ELSE {AllOk}) :
                   coordinate_argo_ingestion(w, u, oks, cap)
          \/ FetchSkip(w)
          \/ \E ok \in BOOLEAN : Download(w, ok)
          \/ CoordinateReturn(w)
          \/ CheckProfile(w)
          \/ \E fault \in Faults : Persist(w, fault)
          \/ FileDone(w)
    /\ UNCHANGED pure

(***************************************************************************)
(* Spec: two workers ingest concurrently, from uploads and file URLs.      *)
(* SpecCoord: one worker, every kind of call, directory URLs included.     *)
(* SpecSource: one worker, calls on malformed sources, one after another.  *)
(* SpecCrawl: one worker traverses the small archive request by request.   *)
(* SpecPure: list_links, recursive_nc_files, julian_to_datetime,           *)
(* get_nearest_ocean and get_array_or_default applied on their own, to     *)
(* arguments drawn from bounded sets.                                      *)
(***************************************************************************)
Next == Step(Workers, FileIds, FileUrls, MaxRuns)

Spec == Init /\ [][Next]_vars

NextCoord == Step({"w1"}, FileIds, StartUrls, MaxCoordRuns)

SpecCoord == Init /\ [][NextCoord]_vars

\* the sources of SpecSource: payloads that do not open, lack variables or
\* have variables that do not extract, and one with every level complete;
\* URLs of every shape
SourceFiles == {NotADataset, "B", "D", "E", "F", "G", "H"}

SourceUrls == {"h/x", "h/p/x_prof.nc", "h/s.nc"}

NextSource == Step({"w1"}, SourceFiles, SourceUrls, MaxSourceRuns)

SpecSource == Init /\ [][NextSource]_vars

\* the steps of a call under way in SpecCrawl
CrawlRun(w) ==
    \/ \E ok \in BOOLEAN : ListAttempt(w, ok)
    \/ \E ok \in BOOLEAN : Download(w, ok)
    \/ CoordinateReturn(w)
    \/ CheckProfile(w)
    \/ Persist(w, "none")
    \/ FileDone(w)

NextCrawl ==
    /\ \/ CrawlBegin("w1", SmallRootUrl, MaxCrawlRuns)
       \/ CrawlRun("w1")
    /\ UNCHANGED pure

\* a call under way keeps running: every request ends, by an answer or by
\* its timeout, and every sleep is finite
SpecCrawl == Init /\ [][NextCrawl]_vars /\ WF_vars(CrawlRun("w1") /\ UNCHANGED pure)

\* the limits given to recursive_nc_files
Limits == (0..MaxLimit) \cup {NoLimit}

\* the JULD values decoded: magnitudes with a leading digit next to a
\* threshold of the ladder, followed by zeros, by 999s, or by zeros and a 1
Leads == {1, 49, 50, 99, 100, 101, 253, 254, 999}

Mags ==
    {<<0>>} \cup
    UNION { { <<m>> \o [j \in 1..n |-> 0],
              <<m>> \o [j \in 1..n |-> 999],
              <<m>> \o [j \in 1..n |-> IF j = n THEN 1 ELSE 0] } :
            m \in Leads, n \in 0..(MaxDigits - 1) }

JuldValues ==
    {NaNW} \cup {[neg |-> FALSE, mag |-> a] : a \in Mags}
           \cup {[neg |-> TRUE, mag |-> a] : a \in Mags \ {<<0>>}}

\* the datasets and the profile indices arrays are extracted from; the
\* indices go past N_PROF
ExtractedFiles == {"A", "B", "C", "D", "E", "F", "G", "H"}

Indices == 0..3

\* the roots traversed
BaseUrls == {RootUrl, ScenarioRootUrl}

\* the URLs listed on their own: directories of the archive with links of
\* several kinds, and one the archive does not have
ListedUrls == {"h/d/", "h/d/1/", "h/d/1/profiles/", "h/e/9/", "h/z/"}

\* the patterns recursive_nc_files gives to list_links; "links" is no pattern
Patterns == {"float", "prof", "links", "nc"}

\* the coordinates looked up: the table's own, the ends of the ranges, values
\* beyond them, and the floats that are not finite
Latitudes == {NaN, PosInf, NegInf, -91, -90, -60, -20, 0, 15, 35, 60, 75, 90, 91}

Longitudes == {NaN, PosInf, NegInf, -180, -160, -75, -30, 0, 18, 65, 80, 90, 180, 200}

InitPure ==
    /\ db = [profiles |-> <<>>, measurements |-> <<>>]
    /\ wk = [w \in Workers |-> Idle]
    /\ hist = [w \in Workers |-> <<>>]
    /\ \/ \E base_url \in BaseUrls, limit \in Limits, oks \in Oks :
             pure = [pc |-> "call", fn |-> "recursive_nc_files",
                     base_url |-> base_url, limit |-> limit, oks |-> oks]
       \/ \E juld_val \in JuldValues :
             pure = [pc |-> "call", fn |-> "julian_to_datetime", juld_val |-> juld_val]
       \/ \E url \in ListedUrls, pattern \in Patterns :
             pure = [pc |-> "call", fn |-> "list_links", url |-> url,
                     pattern |-> pattern, attempt |-> 0, tries |-> <<>>]
       \/ \E f \in ExtractedFiles, i \in Indices :
             pure = [pc |-> "call", fn |-> "get_array_or_default", f |-> f, i |-> i]
       \/ \E lat \in Latitudes, lon \in Longitudes :
             pure = [pc |-> "call", fn |-> "get_nearest_ocean", lat |-> lat, lon |-> lon]

\* list(recursive_nc_files(base_url, limit)): the generator consumed to its end
Traverse ==
    /\ pure.pc = "call" /\ pure.fn = "recursive_nc_files"
    /\ pure' = [pure EXCEPT !.pc = "done"] @@
                [out |-> recursive_nc_files(pure.base_url, pure.limit, pure.oks)]
    /\ UNCHANGED <<db, wk, hist>>

\* julian_to_datetime(juld_val)
Decode ==
    /\ pure.pc = "call" /\ pure.fn = "julian_to_datetime"
    /\ pure' = [pure EXCEPT !.pc = "done"] @@
                [out |-> julian_to_datetime(pure.juld_val)]
    /\ UNCHANGED <<db, wk, hist>>

\* get_nearest_ocean(lat, lon)
Lookup ==
    /\ pure.pc = "call" /\ pure.fn = "get_nearest_ocean"
    /\ pure' = [pure EXCEPT !.pc = "done"] @@
                [out |-> get_nearest_ocean(pure.lat, pure.lon)]
    /\ UNCHANGED <<db, wk, hist>>

\* list_links(url, pattern): one pass of the retry loop; tries is a history
\* field, the outcomes of the requests made so far
Attempt(ok) ==
    /\ pure.pc = "call" /\ pure.fn = "list_links"
    /\ LET tried == [pure EXCEPT !.tries = Append(@, ok)]
       IN  pure' = IF ok \/ ~MoreAttempts(pure.attempt)
                   THEN [tried EXCEPT !.pc = "done"] @@
                        [out |-> list_links(pure.url, pure.pattern, ok)]
                   ELSE [tried EXCEPT !.attempt = @ + 1]
    /\ UNCHANGED <<db, wk, hist>>

\* get_array_or_default(ds, var_name, i, is_qc_flag) for each of the eight
\* variables: whether the call raises, and the array it returns otherwise
Extract ==
    /\ pure.pc = "call" /\ pure.fn = "get_array_or_default"
    /\ LET ds == Dataset(pure.f)
       IN  pure' = [pure EXCEPT !.pc = "done"] @@
              [out |-> [var_name \in ArrayVars |->
                  LET raised == Raises(ds, var_name, pure.i, IsQcFlag(var_name))
                  IN  [raised |-> raised,
                       arr    |-> IF raised THEN <<>>
                                  ELSE get_array_or_default(ds, var_name, pure.i,
                                                            IsQcFlag(var_name))]]]
    /\ UNCHANGED <<db, wk, hist>>

NextPure == Traverse \/ Decode \/ Lookup \/ Extract \/ \E ok \in BOOLEAN : Attempt(ok)

SpecPure == InitPure /\ [][NextPure]_vars

(***************************************************************************)
(* Vocabulary of the properties.                                           *)
(***************************************************************************)
Pks == 1..Len(db.profiles)

\* the measurement rows of header pk, in insertion order
RowsOf(pk) == SelectSeq(db.measurements, LAMBDA r : r.profile = pk)

Pressures(rows) == [k \in 1..Len(rows) |-> rows[k].pressure]

\* the pressures of profile index i of dataset f that are not missing
ExpectedPressures(f, i) ==
    IF "PRES" \notin DOMAIN Dataset(f) THEN <<>>
    ELSE SelectSeq(Dataset(f).PRES[i + 1], LAMBDA p : p # NaN)

\* the headers stored for the identity of profile index i of dataset f
HeadersFor(f, i) ==
    {pk \in Pks : /\ db.profiles[pk].platform_number = PlatformNumber(Dataset(f), i)
                  /\ db.profiles[pk].cycle_number = CycleNumber(Dataset(f), i)}

\* the log of the call a worker is in, and the logs of the calls it completed
LogsOf(w) == {wk[w].log} \cup {hist[w][k].log : k \in 1..Len(hist[w])}

Completed(w) == {hist[w][k] : k \in 1..Len(hist[w])}

\* no transaction of the log failed for a reason of the store itself
NoDbError(log) == \A e \in Entries(log) : e.res # "dberror"

(***************************************************************************)
(* C2.  Per-profile atomicity: in every committed store state a header is  *)
(* present exactly with its whole measurement batch, the levels of its     *)
(* source profile whose pressure is not missing, in level order; and no    *)
(* measurement row is without its header.                                  *)
(***************************************************************************)
C2_Atomicity ==
    /\ \A pk \in Pks :
          Pressures(RowsOf(pk)) =
              ExpectedPressures(db.profiles[pk].src[1], db.profiles[pk].src[2])
    /\ \A r \in Rows(db.measurements) : r.profile \in Pks

\* a bulk insert has failed after the header insert of its transaction, a
\* header insert has failed, and a header with a non-empty batch is stored
C2_Witness ==
    /\ \E w \in Workers : \E e \in Entries(wk[w].log) : e.res = "duppres"
    /\ \E w \in Workers : \E e \in Entries(wk[w].log) : e.res \in {"unique", "notnull"}
    /\ \E pk \in Pks : RowsOf(pk) # <<>>

(***************************************************************************)
(* C3.  Uniqueness: no two stored headers have the same (platform_number,  *)
(* cycle_number), and no two have the same data_centre_ref.                *)
(***************************************************************************)
C3_Unique ==
    \A p, q \in Pks :
        p # q =>
            /\ ~( /\ db.profiles[p].platform_number = db.profiles[q].platform_number
                  /\ db.profiles[p].cycle_number = db.profiles[q].cycle_number )
            /\ db.profiles[p].data_centre_ref # db.profiles[q].data_centre_ref

\* two workers were past the existence check for one key at once; one has
\* stored it and the insert of the other has been rejected
C3_Witness ==
    \E w \in Workers : \E e \in Entries(wk[w].log) :
        /\ e.race /\ e.res = "unique"
        /\ Cardinality(HeadersFor(e.file, e.i)) = 1

(***************************************************************************)
(* C5.  Every stored measurement has a pressure that is present and not    *)
(* NaN.                                                                    *)
(***************************************************************************)
C5_PressurePresent ==
    \A r \in Rows(db.measurements) : r.pressure # NaN /\ r.pressure # NoneV

\* index 0 of dsA, whose second level has a temperature and no pressure, is
\* stored with the two other levels
C5_Witness ==
    \E pk \in Pks :
        /\ db.profiles[pk].src = <<"A", 0>>
        /\ Dataset("A").PRES[1][2] = NaN /\ Dataset("A").TEMP[1][2] # NaN
        /\ Len(RowsOf(pk)) = 2

IsPrefix(s, t) == Len(s) <= Len(t) /\ SubSeq(t, 1, Len(s)) = s

\* worker w is about to look at an index with a valid identity that is stored
MeetsStored(w) ==
    /\ wk[w].pc = "check"
    /\ wk[w].i < Dataset(wk[w].file).N_PROF
    /\ IdentityValid(Dataset(wk[w].file), wk[w].i)
    /\ HeadersFor(wk[w].file, wk[w].i) # {}

C9_Frame ==
    [][ /\ IsPrefix(db.profiles, db'.profiles)
        /\ IsPrefix(db.measurements, db'.measurements)
        /\ \A w \in Workers :
              (MeetsStored(w) /\ wk'[w] # wk[w]) =>
                  /\ db' = db
                  /\ wk'[w].pc = "check" /\ wk'[w].i = wk[w].i + 1
                  /\ wk'[w].log[Len(wk'[w].log)].res = "exists" ]_vars

\* index 1 of dsB has been skipped as stored, while the stored header and
\* measurements of platform 1 cycle 1 carry other values than dsB does
C9_Witness ==
    \E w \in Workers : \E e \in Entries(wk[w].log) :
        /\ e.file = "B" /\ e.i = 1 /\ e.res = "exists"
        /\ \E pk \in HeadersFor("B", 1) :
              /\ db.profiles[pk].latitude # Dataset("B").LATITUDE[2]
              /\ db.profiles[pk].juld_date # julian_to_datetime(Dataset("B").JULD[2])
              /\ Pressures(RowsOf(pk)) # ExpectedPressures("B", 1)

(***************************************************************************)
(* C1.  Idempotence: when one worker, alone, ingests the same source twice *)
(* in sequence and the store itself does not fail, then after the second   *)
(* call every profile of the source with a valid identity is stored with   *)
(* exactly one header and with each of its measurements exactly once, and  *)
(* the second call has added no row.                                       *)
(***************************************************************************)
\* the first two calls of w took the same source and read the same files,
\* nothing else ran, and no transaction failed for a reason of the store
TwiceInSequence(w) ==
    /\ Len(hist[w]) >= 2
    /\ \A v \in Workers \ {w} : hist[v] = <<>> /\ wk[v].pc = "idle"
    /\ hist[w][1].src = hist[w][2].src
    /\ hist[w][1].files = hist[w][2].files
    /\ hist[w][1].files # <<>>
    /\ NoDbError(hist[w][1].log) /\ NoDbError(hist[w][2].log)

CE_C1_Idempotent ==
    \A w \in Workers :
        TwiceInSequence(w) =>
            /\ hist[w][2].added = 0
            /\ \A e \in Entries(hist[w][2].log) : e.res # "saved"
            /\ \A f \in Entries(hist[w][1].files) :
                  \A i \in 0..(Dataset(f).N_PROF - 1) :
                      IdentityValid(Dataset(f), i) =>
                          /\ Cardinality(HeadersFor(f, i)) = 1
                          /\ \A pk \in HeadersFor(f, i) :
                                Pressures(RowsOf(pk)) =
                                    ExpectedPressures(db.profiles[pk].src[1],
                                                      db.profiles[pk].src[2])

(***************************************************************************)
(* C4.  Check-then-insert race: when two workers are past the existence    *)
(* check for the same (platform_number, cycle_number) at once and the      *)
(* store itself does not fail, exactly one of them commits the profile and *)
(* the other's insert is rejected as a uniqueness violation that leaves no *)
(* row of it behind.                                                       *)
(***************************************************************************)
KeyOf(e) == <<PlatformNumber(Dataset(e.file), e.i), CycleNumber(Dataset(e.file), e.i)>>

CE_C4_Race ==
    \A w1, w2 \in Workers :
        w1 # w2 =>
            \A e1 \in Entries(wk[w1].log), e2 \in Entries(wk[w2].log) :
                ( /\ e1.race /\ e2.race /\ KeyOf(e1) = KeyOf(e2)
                  /\ e1.res # "dberror" /\ e2.res # "dberror" )
                => \/ e1.res = "saved" /\ e2.res = "unique" /\ e2.rows = 0
                   \/ e2.res = "saved" /\ e1.res = "unique" /\ e1.rows = 0

(***************************************************************************)
(* C7.  Per-profile failure isolation: when the transaction of profile     *)
(* index i fails, no row of it is committed, every index of the file is    *)
(* still processed, and every later index of the file that has a valid     *)
(* identity and is not stored when its transaction runs is committed       *)
(* (unless the store itself fails on it).                                  *)
(***************************************************************************)
Failed(e) == e.res \in {"dberror", "unique", "notnull", "duppres", "keyerror", "raised"}

RECURSIVE ProfilesIn(_)
ProfilesIn(files) ==
    IF files = <<>> THEN 0 ELSE Dataset(Head(files)).N_PROF + ProfilesIn(Tail(files))

CE_C7_Isolation ==
    \A w \in Workers :
        /\ \A h \in Completed(w) : Len(h.log) = ProfilesIn(h.files)
        /\ \A log \in LogsOf(w) : \A j, k \in 1..Len(log) :
              ( /\ j < k /\ log[j].file = log[k].file
                /\ Failed(log[j])
                /\ log[k].res \in {"saved", "notnull", "duppres"} )
              => log[j].rows = 0 /\ log[k].res = "saved"

(***************************************************************************)
(* C8.  Completeness: every profile of an ingested file that has a valid   *)
(* identity and is not already stored ends up stored with its header and   *)
(* one row per level with a pressure, also when two levels carry the same  *)
(* pressure.  Stated here for the profiles whose timestamp decodes, and    *)
(* for calls in which the store itself does not fail.                      *)
(***************************************************************************)
CE_C8_Complete ==
    \A w \in Workers : \A h \in Completed(w) : \A e \in Entries(h.log) :
        ( /\ NoDbError(h.log)
          /\ IdentityValid(Dataset(e.file), e.i)
          /\ e.res \notin {"exists", "unique"}
          /\ julian_to_datetime(safe_index_wide(Dataset(e.file).JULD, e.i)) # NoneV )
        => \E pk \in HeadersFor(e.file, e.i) :
              /\ db.profiles[pk].src = <<e.file, e.i>>
              /\ Pressures(RowsOf(pk)) = ExpectedPressures(e.file, e.i)

(***************************************************************************)
(* C10.  For every URL that ends in ".nc" coordinate_argo_ingestion        *)
(* downloads exactly that one file; for every URL that ends in "/" it      *)
(* performs a directory traversal.                                         *)
(***************************************************************************)
CE_C10_Dispatch ==
    \A w \in Workers : \A h \in Completed(w) :
        h.src[1] = "url" =>
            /\ EndsWith(h.src[2], ".nc") => h.gets = <<h.src[2]>> /\ h.nlist = 0
            /\ EndsWith(h.src[2], "/") => h.nlist >= 1

(***************************************************************************)
(* C11.  Invalid source descriptor: a call of coordinate_argo_ingestion on *)
(* a URL that ends neither in ".nc" nor in "/" returns 0, has issued no    *)
(* listing request and no download, and has written nothing; a payload     *)
(* that does not open as a dataset contributes no profile and no count, so *)
(* an upload of one returns 0 with nothing written.                        *)
(***************************************************************************)
\* no call is under way, and every call made was on a URL of neither shape
\* or read no payload that opens
OnlyInvalidSources ==
    \A w \in Workers :
        /\ wk[w].pc = "idle"
        /\ \A h \in Completed(w) : \A f \in Entries(h.files) : ~Opens(f)

C11_InvalidSource ==
    /\ \A w \in Workers :
        /\ \A h \in Completed(w) :
              /\ (h.src[1] = "url" /\ ~EndsWith(h.src[2], ".nc") /\ ~EndsWith(h.src[2], "/"))
                    => /\ h.ret = 0 /\ h.nlist = 0 /\ h.gets = <<>>
                       /\ h.log = <<>> /\ h.added = 0
              /\ (h.src[1] = "upload" /\ ~Opens(h.src[2]))
                    => h.ret = 0 /\ h.log = <<>> /\ h.added = 0
              /\ (\A f \in Entries(h.files) : ~Opens(f))
                    => h.ret = 0 /\ h.log = <<>> /\ h.added = 0
        /\ \A log \in LogsOf(w) : \A e \in Entries(log) : Opens(e.file)
    /\ OnlyInvalidSources => db = [profiles |-> <<>>, measurements |-> <<>>]

\* the worker has returned from a call on "h/x" and from a call whose
\* download gave a payload that does not open
C11_Witness ==
    \E w \in Workers : \E h, g \in Completed(w) :
        /\ h.src = <<"url", "h/x">>
        /\ g.src[1] = "url" /\ g.files = <<NotADataset>> /\ g.gets # <<>>

(***************************************************************************)
(* C12.  Download failure isolation in coordinate_argo_ingestion: a file   *)
(* whose download fails contributes nothing to the store or to the count   *)
(* (the failing step leaves the store and the running count as they are,   *)
(* so what earlier files committed stays committed), and every candidate   *)
(* file after it is still downloaded and, when it opens, processed at      *)
(* every index.                                                            *)
(***************************************************************************)
RECURSIVE SumRows(_)
SumRows(log) == IF log = <<>> THEN 0 ELSE Head(log).rows + SumRows(Tail(log))

\* the payloads of the URLs of gets whose download did not fail, in order
Fetched(gets, failed) ==
    LET got == SelectSeq(gets, LAMBDA u : u \notin Entries(failed))
    IN  [k \in 1..Len(got) |-> Payload(got[k])]

C12_AfterCall(h) ==
    /\ h.failed # <<>> => h.gets = h.queue
    /\ Entries(h.failed) \subseteq Entries(h.gets)
    /\ Entries(h.gets) \subseteq Entries(h.queue)
    /\ h.files = Fetched(h.gets, h.failed)
    /\ Len(h.log) = ProfilesIn(SelectSeq(h.files, Opens))
    /\ \A e \in Entries(h.log) : e.file \in Entries(h.files)
    /\ h.ret = SumRows(h.log)

C12_FailingStep(w) ==
    Len(wk'[w].failed) > Len(wk[w].failed) =>
        /\ db' = db
        /\ wk'[w].ingested = wk[w].ingested /\ wk'[w].added = wk[w].added
        /\ wk'[w].log = wk[w].log

C12_DownloadIsolation ==
    /\ [](\A w \in Workers : \A h \in Completed(w) :
             h.src[1] = "url" => C12_AfterCall(h))
    /\ [][\A w \in Workers : C12_FailingStep(w)]_vars

\* a traversal found three files; the download of the second failed, the
\* first had committed rows before it, and the third was processed after it
C12_Witness ==
    \E w \in Workers : \E h \in Completed(w) :
        /\ Len(h.queue) = 3 /\ h.failed = <<h.queue[2]>>
        /\ \E e \in Entries(h.log) :
              e.file = Payload(h.queue[1]) /\ e.res = "saved" /\ e.rows > 0
        /\ \E e \in Entries(h.log) : e.file = Payload(h.queue[3]) /\ e.res = "saved"
        /\ h.ret > 0

(***************************************************************************)
(* C14.  Termination: every call of coordinate_argo_ingestion that has     *)
(* started returns, whatever requests fail, also when every request fails; *)
(* no call of list_links makes more than retries requests, and no file is  *)
(* requested more than once.                                               *)
(***************************************************************************)
C14_Bounded(rec) ==
    /\ rec.maxtries <= retries
    /\ rec.attempt < retries
    /\ Cardinality(Entries(rec.gets)) = Len(rec.gets)

C14_Termination ==
    /\ [](\A w \in Workers :
             /\ C14_Bounded(wk[w])
             /\ \A h \in Completed(w) : h.maxtries <= retries
             /\ \A h \in Completed(w) : Cardinality(Entries(h.gets)) = Len(h.gets))
    /\ \A w \in Workers : (wk[w].pc # "idle") ~> (wk[w].pc = "idle")

\* a call has returned 0 from a host that failed every request: the root
\* listing was tried retries times and given up; another call has returned
\* after a listing it gave up and a download that failed
C14_Witness ==
    \E w \in Workers : \E h, g \in Completed(w) :
        /\ h.src = <<"url", SmallRootUrl>>
        /\ h.nlist = 1 /\ h.maxtries = retries
        /\ h.queue = <<>> /\ h.gets = <<>> /\ h.ret = 0
        /\ g.nlist > 1 /\ g.maxtries = retries /\ g.failed # <<>>

(***************************************************************************)
(* C13.  A download that fails is tried again, up to retries requests in   *)
(* all as for a listing, before the file is given up: every file a call    *)
(* has skipped for a failed download was requested retries times.          *)
(***************************************************************************)
Count(seq, x) == Cardinality({k \in 1..Len(seq) : seq[k] = x})

CE_C13_DownloadRetried ==
    \A w \in Workers : \A h \in Completed(w) :
        \A u \in Entries(h.failed) : Count(h.gets, u) = retries

(***************************************************************************)
(* C15.  Skip rules: the profiles a call of process_single_netcdf_file     *)
(* newly stores are exactly the indices of the file with a valid identity  *)
(* whose key is not stored when the index is reached.  Stated for the      *)
(* first call on an empty store, an upload during which the store itself   *)
(* does not fail: the indices stored are then the first occurrences of the *)
(* valid keys of the file.                                                 *)
(***************************************************************************)
KeyAtIndex(f, i) == <<PlatformNumber(Dataset(f), i), CycleNumber(Dataset(f), i)>>

\* the indices of f with a valid identity that no earlier index of f has
FirstValid(f) ==
    {i \in 0..(Dataset(f).N_PROF - 1) :
        /\ IdentityValid(Dataset(f), i)
        /\ \A j \in 0..(i - 1) : KeyAtIndex(f, j) # KeyAtIndex(f, i)}

\* the indices of f a stored header was built from
StoredFrom(f) == {r.src[2] : r \in {q \in Rows(db.profiles) : q.src[1] = f}}

\* w has made one call, an upload of a payload that opens, no other call
\* was made, and no transaction failed for a reason of the store
FirstUpload(w) ==
    /\ Len(hist[w]) = 1 /\ wk[w].pc = "idle"
    /\ \A v \in Workers \ {w} : hist[v] = <<>> /\ wk[v].pc = "idle"
    /\ hist[w][1].src[1] = "upload" /\ Opens(hist[w][1].src[2])
    /\ NoDbError(hist[w][1].log)

CE_C15_SkipRules ==
    \A w \in Workers :
        FirstUpload(w) => StoredFrom(hist[w][1].src[2]) = FirstValid(hist[w][1].src[2])

(***************************************************************************)
(* C16.  A profile with a valid identity whose timestamp is undecodable is *)
(* persisted all the same, with juld_date absent and with its              *)
(* measurements (when nothing else stands against it: its key is not       *)
(* stored, its fields extract, its pressures differ, the store works).     *)
(***************************************************************************)
Undecodable(f, i) ==
    /\ "JULD" \in DOMAIN Dataset(f)
    /\ julian_to_datetime(safe_index_wide(Dataset(f).JULD, i)) = NoneV

CE_C16_UndecodableStored ==
    \A w \in Workers : \A log \in LogsOf(w) : \A e \in Entries(log) :
        ( /\ e.res \notin {"invalid", "exists", "unique", "dberror", "keyerror", "raised",
                          "duppres"}
          /\ Undecodable(e.file, e.i) )
        => \E pk \in HeadersFor(e.file, e.i) :
              /\ db.profiles[pk].src = <<e.file, e.i>>
              /\ db.profiles[pk].juld_date = NoneV
              /\ Pressures(RowsOf(pk)) = ExpectedPressures(e.file, e.i)

(***************************************************************************)
(* C17.  A non-identity variable that is absent from the dataset never     *)
(* aborts the profile: a profile of such a dataset that has a valid        *)
(* identity and is not stored is persisted (when nothing else stands       *)
(* against it: its timestamp decodes, its pressures differ, the store      *)
(* works).                                                                 *)
(***************************************************************************)
FieldVars == RequiredVars \cup {"PRES", "TEMP", "PRES_QC"}

CE_C17_FieldDegrades ==
    \A w \in Workers : \A log \in LogsOf(w) : \A e \in Entries(log) :
        ( /\ e.res \notin {"invalid", "exists", "unique", "dberror", "notnull", "duppres"}
          /\ ~(FieldVars \subseteq DOMAIN Dataset(e.file)) )
        => \E pk \in HeadersFor(e.file, e.i) : db.profiles[pk].src = <<e.file, e.i>>

(***************************************************************************)
(* C18.  The deduplication key is injective: an insert of a header is      *)
(* rejected as a uniqueness violation only when a header with the same     *)
(* (platform_number, cycle_number) is stored, and stored headers with      *)
(* different pairs have different keys.                                    *)
(***************************************************************************)
CE_C18_KeyInjective ==
    /\ \A w \in Workers : \A log \in LogsOf(w) : \A e \in Entries(log) :
          e.res = "unique" => HeadersFor(e.file, e.i) # {}
    /\ \A p, q \in Pks :
          <<db.profiles[p].platform_number, db.profiles[p].cycle_number>>
              # <<db.profiles[q].platform_number, db.profiles[q].cycle_number>>
          => db.profiles[p].data_centre_ref # db.profiles[q].data_centre_ref

(***************************************************************************)
(* C19.  Cap on traversal: with a limit >= 0, recursive_nc_files emits at  *)
(* most limit URLs and makes no listing request once the cap is reached:   *)
(* for a traversal that has emitted limit URLs, the last request made is   *)
(* the listing the last URL came from.                                     *)
(***************************************************************************)
Traversed == pure.pc = "done" /\ pure.fn = "recursive_nc_files"

Last(seq) == seq[Len(seq)]

StartsWith(s, pre) == Len(s) >= Len(pre) /\ SubSeq(s, 1, Len(pre)) = pre

CE_C19_Cap ==
    (Traversed /\ pure.limit # NoLimit) =>
        /\ Len(pure.out.urls) <= pure.limit
        /\ (pure.limit > 0 /\ Len(pure.out.urls) = pure.limit) =>
              StartsWith(Last(pure.out.urls), Last(pure.out.reqs))

(***************************************************************************)
(* C20.  Decision ladder of julian_to_datetime, for every finite v: v in   *)
(* [0, 50000] is 1950-01-01 plus v days; v > 1e17 is nanoseconds since the *)
(* UNIX epoch; v in (1e12, 1e17] is milliseconds since the epoch when      *)
(* v < 1e14 and microseconds otherwise; every other v is undecodable.  0   *)
(* gives 1950-01-01 and 50000 a date in 2086 or 2087.  Instants are        *)
(* compared by the day they fall on.                                       *)
(***************************************************************************)
Decoded == pure.pc = "done" /\ pure.fn = "julian_to_datetime"

\* the day since 1950-01-01 of the instant a / 1000^k seconds after the epoch
EpochDay(a, k) == UnixEpochDay + ToInt(DivSmall(Shift(a, k), SecondsPerDay))

IsLeap(y) == (y % 4 = 0 /\ y % 100 # 0) \/ y % 400 = 0

RECURSIVE YearOf(_, _)
\* the calendar year of the day d days after 1 January of year y
YearOf(d, y) ==
    LET n == IF IsLeap(y) THEN 366 ELSE 365
    IN  IF d < n THEN y ELSE YearOf(d - n, y + 1)

CE_C20_Ladder ==
    /\ julian_to_datetime(Wide(0)) = 0
    /\ YearOf(julian_to_datetime(Wide(50000)), 1950) \in {2086, 2087}
    /\ (Decoded /\ pure.juld_val # NaNW) =>
          LET v == pure.juld_val.mag
          IN  IF pure.juld_val.neg THEN pure.out = NoneV
              ELSE IF LessEq(v, Wide(50000).mag) THEN pure.out = ToInt(v)
              ELSE IF Less(E17, v)
                   THEN /\ pure.out # NoneV
                        /\ LessEq(Shift(v, 3), MaxTimestamp) => pure.out = EpochDay(v, 3)
              ELSE IF Less(E12, v) /\ LessEq(v, E17)
                   THEN pure.out = EpochDay(v, IF Less(v, E14) THEN 1 ELSE 2)
              ELSE pure.out = NoneV

(***************************************************************************)
(* C21.  get_nearest_ocean returns "Unknown" if and only if latitude or    *)
(* longitude is not finite (NaN or infinite); for every finite pair it     *)
(* returns one of the names of OCEAN_COORDS.                               *)
(***************************************************************************)
Looked == pure.pc = "done" /\ pure.fn = "get_nearest_ocean"

OceanNames == {OCEAN_COORDS[k].name : k \in 1..Len(OCEAN_COORDS)}

C21_UnknownIffNotFinite ==
    Looked =>
        /\ pure.out = "Unknown" <=> ~(IsFinite(pure.lat) /\ IsFinite(pure.lon))
        /\ (IsFinite(pure.lat) /\ IsFinite(pure.lon)) => pure.out \in OceanNames

\* the lookup of an infinite latitude with a finite longitude has returned:
\* it has passed the NaN test and compared ten distances
C21_Witness ==
    /\ Looked /\ pure.lat = PosInf /\ IsFinite(pure.lon)
    /\ pure.out = "Unknown"

(***************************************************************************)
(* C22.  get_nearest_ocean returns "Unknown" for a latitude that is finite *)
(* but outside [-90, 90], such as 91, and "Pacific Ocean" for latitude 0,  *)
(* longitude -160.                                                         *)
(***************************************************************************)
LatitudeInRange(lat) == -90 <= lat /\ lat <= 90

CE_C22_OutOfRange ==
    Looked =>
        /\ (IsFinite(pure.lat) /\ ~LatitudeInRange(pure.lat)) => pure.out = "Unknown"
        /\ (pure.lat = 0 /\ pure.lon = -160) => pure.out = "Pacific Ocean"

(***************************************************************************)
(* C23.  Retry protocol of list_links: the requests for a listing are made *)
(* one after another; the first one that succeeds ends the call, which     *)
(* returns the links of that page that match the pattern, in page order;   *)
(* at most retries requests are made; when all of them fail the call       *)
(* returns the empty sequence, and no failure of a request reaches the     *)
(* caller.                                                                 *)
(***************************************************************************)
Listed == pure.fn = "list_links"

\* re.search(pattern, l), for the patterns of recursive_nc_files
Matches(pattern, l) ==
    CASE pattern = "float" -> IsFloatDir(l)
      [] pattern = "prof"  -> EndsWith(l, "_prof.nc")
      [] pattern = "nc"    -> EndsWith(l, ".nc")
      [] OTHER             -> TRUE

AllFailed(tries) == \A k \in 1..Len(tries) : ~tries[k]

C23_State ==
    Listed =>
        /\ Len(pure.tries) <= retries
        /\ pure.pc = "call" => AllFailed(pure.tries) /\ Len(pure.tries) < retries
        /\ pure.pc = "done" =>
              /\ pure.tries # <<>>
              /\ AllFailed(SubSeq(pure.tries, 1, Len(pure.tries) - 1))
              /\ IF Last(pure.tries)
                 THEN pure.out = SelectSeq(Listing(pure.url),
                                           LAMBDA l : Matches(pure.pattern, l))
                 ELSE Len(pure.tries) = retries /\ pure.out = <<>>

C23_Step ==
    Listed =>
        /\ pure.pc = "call"
        /\ Len(pure'.tries) = Len(pure.tries) + 1
        /\ SubSeq(pure'.tries, 1, Len(pure.tries)) = pure.tries
        /\ pure'.url = pure.url /\ pure'.pattern = pure.pattern

C23_RetryProtocol == []C23_State /\ [][C23_Step]_vars

\* a listing has returned at its third request, after two failures, with
\* some links of the page and not all of them
C23_Witness ==
    /\ Listed /\ pure.pc = "done"
    /\ pure.tries = <<FALSE, FALSE, TRUE>>
    /\ pure.out # <<>> /\ pure.out # Listing(pure.url)

(***************************************************************************)
(* C24.  Content and order of the traversal: the float directories are     *)
(* visited in listing order; each one gives first its own links that end   *)
(* in "_prof.nc", in listing order, then, when "profiles/" is among its    *)
(* links, every link of profiles/ that ends in ".nc", in listing order,    *)
(* before the next float directory.  With a limit the URLs are the first   *)
(* of that sequence.  A root whose only float directory holds a profiles/  *)
(* folder with two .nc files yields exactly two URLs.  Stated for          *)
(* traversals all of whose listings are answered.                          *)
(***************************************************************************)
Filtered(url, pattern) == SelectSeq(Listing(url), LAMBDA l : Matches(pattern, l))

\* the URLs and the listing requests of one float directory
ExpectedDir(base_url, fdir) ==
    LET fdir_url == base_url \o fdir
        prof_url == fdir_url \o "profiles/"
        direct   == Filtered(fdir_url, "prof")
        nested   == IF "profiles/" \in Entries(Listing(fdir_url))
                    THEN Filtered(prof_url, "nc") ELSE <<>>
    IN  [ urls |-> [k \in 1..Len(direct) |-> fdir_url \o direct[k]]
                   \o [k \in 1..Len(nested) |-> prof_url \o nested[k]],
          reqs |-> <<fdir_url, fdir_url>>
                   \o (IF "profiles/" \in Entries(Listing(fdir_url))
                       THEN <<prof_url>> ELSE <<>>) ]

RECURSIVE ExpectedFrom(_, _)
ExpectedFrom(base_url, float_dirs) ==
    IF float_dirs = <<>> THEN [urls |-> <<>>, reqs |-> <<>>]
    ELSE LET first == ExpectedDir(base_url, Head(float_dirs))
             rest  == ExpectedFrom(base_url, Tail(float_dirs))
         IN  [urls |-> first.urls \o rest.urls, reqs |-> first.reqs \o rest.reqs]

Expected(base_url) == ExpectedFrom(base_url, Filtered(base_url, "float"))

C24_TraversalOrder ==
    (Traversed /\ pure.oks = AllOk) =>
        /\ pure.limit = NoLimit =>
              /\ pure.out.urls = Expected(pure.base_url).urls
              /\ pure.out.reqs = <<pure.base_url>> \o Expected(pure.base_url).reqs
        /\ IsPrefix(pure.out.urls, Expected(pure.base_url).urls)
        /\ IsPrefix(pure.out.reqs, <<pure.base_url>> \o Expected(pure.base_url).reqs)
        /\ (pure.base_url = ScenarioRootUrl /\ pure.limit = NoLimit) =>
              Len(pure.out.urls) = 2

\* the root with one float directory has been traversed without a limit:
\* the two .nc files of its profiles/ folder, in listing order
C24_Witness ==
    /\ Traversed /\ pure.oks = AllOk /\ pure.limit = NoLimit
    /\ pure.base_url = ScenarioRootUrl
    /\ pure.out.urls = <<"h/f/3/profiles/R3.nc", "h/f/3/profiles/D3.nc">>

(***************************************************************************)
(* C25.  Fail-soft traversal: a listing that failed at every attempt       *)
(* counts as empty and nothing more.  In a traversal without a limit whose *)
(* root listing was answered, every float directory is listed, whatever    *)
(* happened to the directories before it; the files of every directory     *)
(* whose own listings were answered are all emitted; and the URLs emitted  *)
(* are URLs of the full traversal, in its order.  A root listing that      *)
(* failed gives no URL and no further request.                             *)
(***************************************************************************)
\* the outcomes of the requests of the traversal that concern the URL dir
\* or a URL below it
AnsweredBelow(dir) ==
    \A j \in 1..Len(pure.out.reqs) :
        StartsWith(pure.out.reqs[j], dir) => pure.oks[j]

C25_FailSoft ==
    (Traversed /\ pure.limit = NoLimit) =>
        /\ ~pure.oks[1] => pure.out.urls = <<>> /\ pure.out.reqs = <<pure.base_url>>
        /\ pure.oks[1] =>
              \A fdir \in Entries(Filtered(pure.base_url, "float")) :
                  /\ Count(pure.out.reqs, pure.base_url \o fdir) = 2
                  /\ AnsweredBelow(pure.base_url \o fdir) =>
                        Entries(ExpectedDir(pure.base_url, fdir).urls)
                            \subseteq Entries(pure.out.urls)
        /\ pure.out.urls =
              SelectSeq(Expected(pure.base_url).urls,
                        LAMBDA u : u \in Entries(pure.out.urls))

\* both listings of the first float directory failed, and the file of the
\* second float directory, listed after it, has been emitted
C25_Witness ==
    /\ Traversed /\ pure.limit = NoLimit /\ pure.base_url = RootUrl
    /\ pure.oks[1] /\ ~pure.oks[2] /\ ~pure.oks[3]
    /\ pure.out.reqs = <<"h/d/", "h/d/1/", "h/d/1/", "h/d/2/", "h/d/2/", "h/d/2/profiles/">>
    /\ pure.out.urls = <<"h/d/2/profiles/R2.nc">>

(***************************************************************************)
(* C26.  Equal-length guarantee: for every dataset and profile index, each *)
(* array get_array_or_default returns, for PRES, TEMP, TEMP_ADJUSTED,      *)
(* PSAL, PSAL_ADJUSTED and the three QC variables, has the length of the   *)
(* pressure array of that index, and length 1 when the pressure array      *)
(* cannot be extracted; so every level the loop of                         *)
(* process_single_netcdf_file visits is an index of each of the arrays.    *)
(***************************************************************************)
Extracted == pure.pc = "done" /\ pure.fn = "get_array_or_default"

\* the PRES row of index i can be taken from the dataset
PresExtractable(ds, i) ==
    /\ "PRES" \in DOMAIN ds
    /\ Len(ds.PRES) > 1 => i < Len(ds.PRES)
    /\ ~Unreadable(ds, "PRES")

\* the length of the reference pressure array of index i
ReferenceLength(ds, i) ==
    IF ~PresExtractable(ds, i) THEN 1
    ELSE IF Len(ds.PRES) > 1 THEN Len(ds.PRES[i + 1]) ELSE Len(ds.PRES[1])

C26_EqualLength ==
    Extracted =>
        \A var_name \in ArrayVars :
            ~pure.out[var_name].raised =>
                /\ Len(pure.out[var_name].arr) = ReferenceLength(Dataset(pure.f), pure.i)
                /\ ~pure.out["PRES"].raised
                /\ \A level \in 1..Len(pure.out["PRES"].arr) :
                      level \in DOMAIN pure.out[var_name].arr

\* index 0 of dsF: TEMP has two levels where PRES has three, and the array
\* returned for TEMP has three; PRES_QC is returned as it is in the dataset
C26_Witness ==
    /\ Extracted /\ pure.f = "F" /\ pure.i = 0
    /\ Len(Dataset("F").TEMP[1]) = 2 /\ Len(Dataset("F").PRES[1]) = 3
    /\ pure.out["TEMP"].arr = <<NaN, NaN, NaN>>
    /\ pure.out["PRES_QC"].arr = Dataset("F").PRES_QC[1]

(***************************************************************************)
(* C27.  get_array_or_default never raises: whatever goes wrong with the   *)
(* variable asked for (it is missing, its length differs, the index is     *)
(* bad, or any other exception), the call returns the default array, "9"   *)
(* flags for a QC variable and NaN for a numeric one.                      *)
(***************************************************************************)
\* the variable cannot be returned as it is
ExtractionFails(ds, var_name, i) ==
    \/ var_name \notin DOMAIN ds
    \/ Unreadable(ds, var_name)
    \/ Len(ds[var_name]) > 1 /\ i >= Len(ds[var_name])
    \/ Len(_extract_profile_array(ds, var_name, i)) # ReferenceLength(ds, i)

CE_C27_NeverRaises ==
    Extracted =>
        \A var_name \in ArrayVars :
            /\ ~pure.out[var_name].raised
            /\ ExtractionFails(Dataset(pure.f), var_name, pure.i) =>
                  pure.out[var_name].arr =
                      Fill(ReferenceLength(Dataset(pure.f), pure.i),
                           IF IsQcFlag(var_name) THEN "9" ELSE NaN)

(***************************************************************************)
(* C28.  julian_to_datetime is total: for every finite number and for NaN  *)
(* it returns an instant of the calendar (years 1950 to 9999 here) or      *)
(* None, and raises nothing, also when the scaled value lies beyond the    *)
(* last instant a datetime can hold.                                       *)
(***************************************************************************)
\* 9999-12-31 in days since 1950-01-01
LastDay == UnixEpochDay + ToInt(DivSmall(MaxTimestamp, SecondsPerDay))

EmptyProfile(f, i) ==
    \/ ~PresExtractable(Dataset(f), i)
    \/ ExpectedPressures(f, i) = <<>>

CE_C29_EmptyLockIn ==
    \A w \in Workers : \A log \in LogsOf(w) : \A e \in Entries(log) :
        ( /\ IdentityValid(Dataset(e.file), e.i)
          /\ EmptyProfile(e.file, e.i)
          /\ e.res \notin {"exists", "unique", "dberror"} )
        => /\ e.res = "saved" /\ e.rows = 0
           /\ \A pk \in HeadersFor(e.file, e.i) :
                 /\ db.profiles[pk].src = <<e.file, e.i>>
                 /\ RowsOf(pk) = <<>>
           /\ HeadersFor(e.file, e.i) # {}

====
